---- MODULE Spec2Model ----
(***************************************************************************)
(* Model of the Sokoban game in src/main.rs: the level decoder             *)
(* (MapAssetsLoader::load), the Game resource and its methods (step, win,  *)
(* update) and the two Update systems game_update and keyboard_input,      *)
(* each of which the schedule runs once per frame in an order main() does  *)
(* not constrain.                                                          *)
(***************************************************************************)
EXTENDS Integers, Sequences, FiniteSets, TLC

(***************************************************************************)
(* Sizes.  The source has MAP_SIZE = 20 and GAME_LEVEL_COUNT = 50; the     *)
(* model keeps the code and shrinks the two sizes.                         *)
(***************************************************************************)
MAP_SIZE == 3

GAME_LEVEL_COUNT == 3

INPUT_INTERVAL == 200

BLOCK_TYPE_BLANK == 0

BLOCK_TYPE_WALL == 1

BLOCK_TYPE_GROUND == 2

BLOCK_TYPE_BOX == 3

BLOCK_TYPE_AIM == 4

BLOCK_TYPE_PLAYER_DOWN == 5

BLOCK_TYPE_PLAYER_RIGHT == 6

BLOCK_TYPE_PLAYER_LEFT == 7

BLOCK_TYPE_PLAYER_UP == 8

BLOCK_TYPE_BOX_AIM == 9

Coord == 0 .. (MAP_SIZE - 1)

Cells == Coord \X Coord

PlayerKinds ==
  {BLOCK_TYPE_PLAYER_DOWN, BLOCK_TYPE_PLAYER_RIGHT, BLOCK_TYPE_PLAYER_LEFT,
   BLOCK_TYPE_PLAYER_UP}

(***************************************************************************)
(* Keys and the vectors Game::update hands to Game::step.                  *)
(***************************************************************************)
ArrowKeys == {"ArrowLeft", "ArrowRight", "ArrowUp", "ArrowDown"}

Keys == ArrowKeys \cup {"Space"}

NoVec == <<0, 0>>

ActionVec(key) ==
  CASE key = "ArrowLeft" -> <<-1, 0>>
    [] key = "ArrowRight" -> <<1, 0>>
    [] key = "ArrowUp" -> <<0, 1>>
    [] key = "ArrowDown" -> <<0, -1>>
    [] OTHER -> NoVec

Dirs == {ActionVec(k) : k \in ArrowKeys}

VecAdd(p, d) == <<p[1] + d[1], p[2] + d[2]>>

(***************************************************************************)
(* The level decoder.  A text is a sequence of one-character strings.      *)
(***************************************************************************)
ParseDigit(c) ==
  CASE c = "0" -> 0 [] c = "1" -> 1 [] c = "2" -> 2 [] c = "3" -> 3
    [] c = "4" -> 4 [] c = "5" -> 5 [] c = "6" -> 6 [] c = "7" -> 7
    [] c = "8" -> 8 [] c = "9" -> 9 [] OTHER -> 0

RECURSIVE ReplaceCRLF(_)
ReplaceCRLF(text) ==
  IF Len(text) < 2 THEN text
  ELSE IF text[1] = "\r" /\ text[2] = "\n"
       THEN <<"\n">> \o ReplaceCRLF(SubSeq(text, 3, Len(text)))
       ELSE <<text[1]>> \o ReplaceCRLF(Tail(text))

ZeroMap == [x \in Coord |-> [y \in Coord |-> 0]]

\* a byte that is not part of any UTF-8 text
BadByte == "0xFF"

\* String::from_utf8(bytes) is Ok
ValidUtf8(bytes) == \A n \in 1 .. Len(bytes) : bytes[n] # BadByte

\* LoadLoop that stores source row i as grid row i
RECURSIVE LoadLoop_NoFlip(_, _, _, _)
LoadLoop_NoFlip(text, k, value, pos) ==
  IF k = MAP_SIZE * MAP_SIZE THEN [ok |-> TRUE, value |-> value, position |-> pos]
  ELSE LET i == k \div MAP_SIZE
           j == k % MAP_SIZE
           index == i * (MAP_SIZE + 1) + j
       IN IF index + 1 > Len(text) THEN [ok |-> FALSE]
          ELSE LET v == ParseDigit(text[index + 1])
               IN LoadLoop_NoFlip(text, k + 1,
                                  [value EXCEPT ![j][i] = v],
                                  IF v = BLOCK_TYPE_PLAYER_DOWN THEN <<j, i>> ELSE pos)

\* The double loop of load, flattened: k = i * MAP_SIZE + j.  A slice past
\* the end of the text panics, which ends the load without an asset.
RECURSIVE LoadLoop(_, _, _, _)
LoadLoop(text, k, value, pos) ==
  IF k = MAP_SIZE * MAP_SIZE THEN [ok |-> TRUE, value |-> value, position |-> pos]
  ELSE LET i == k \div MAP_SIZE
           j == k % MAP_SIZE
           index == i * (MAP_SIZE + 1) + j
       IN IF index + 1 > Len(text) THEN [ok |-> FALSE]
          ELSE LET v == ParseDigit(text[index + 1])
                   y == MAP_SIZE - i - 1
               IN LoadLoop(text, k + 1,
                           [value EXCEPT ![j][y] = v],
                           IF v = BLOCK_TYPE_PLAYER_DOWN THEN <<j, y>> ELSE pos)

\* the unwrap of from_utf8 panics on bytes that are no text, as the slice does
Load(bytes) ==
  IF ~ValidUtf8(bytes) THEN [ok |-> FALSE]
  ELSE LoadLoop(ReplaceCRLF(bytes), 0, ZeroMap, <<0, 0>>)

(***************************************************************************)
(* Level files.  A picture lists the rows from the top; PadText fills it   *)
(* up to MAP_SIZE rows of MAP_SIZE digits, each row ended by eol.          *)
(***************************************************************************)
PadRow(row, fill) ==
  [j \in 1 .. MAP_SIZE |-> IF j <= Len(row) THEN row[j] ELSE fill]

RECURSIVE PadRows(_, _, _, _)
PadRows(pic, fill, eol, i) ==
  IF i > MAP_SIZE THEN <<>>
  ELSE PadRow(IF i <= Len(pic) THEN pic[i] ELSE <<>>, fill) \o eol
       \o PadRows(pic, fill, eol, i + 1)

PadText(pic, fill, eol) == PadRows(pic, fill, eol, 1)

\* one box, one target, open floor
TextPush ==
  PadText(<< <<"2", "2", "2">>,
             <<"5", "3", "4">>,
             <<"2", "2", "2">> >>, "2", <<"\n">>)

\* no plain box: a box already on its target, and free targets
TextSolved ==
  PadText(<< <<"4", "1", "1">>,
             <<"5", "9", "4">>,
             <<"1", "1", "1">> >>, "1", <<"\n">>)

\* no player marker; a box in the cell the start position defaults to
TextNoPlayer ==
  PadText(<< <<"1", "1", "1">>,
             <<"2", "4", "1">>,
             <<"3", "2", "1">> >>, "1", <<"\n">>)

\* CRLF line ends, a non-digit, a blank, two markers and another player tile
TextOdd ==
  PadText(<< <<"5", "x", "0">>,
             <<"7", "3", "2">>,
             <<"2", "5", "4">> >>, "2", <<"\r", "\n">>)

\* well formed with CRLF line ends; the player is walled in
TextCRLF ==
  PadText(<< <<"1", "1", "4">>,
             <<"1", "9", "1">>,
             <<"5", "3", "1">> >>, "1", <<"\r", "\n">>)

\* one row is missing
TextShort == SubSeq(TextPush, 1, (MAP_SIZE - 1) * (MAP_SIZE + 1))

TextEmpty == <<>>

\* bytes that are not UTF-8
TextBadUtf8 == [TextPush EXCEPT ![MAP_SIZE] = BadByte]

LevelTexts ==
  {TextPush, TextSolved, TextNoPlayer, TextOdd, TextCRLF, TextShort, TextEmpty,
   TextBadUtf8}

\* the state of the load of the level file: not yet finished
Loading == [state |-> "Loading", bytes |-> <<>>]

NoAsset == [ok |-> FALSE]

(***************************************************************************)
(* State.                                                                  *)
(***************************************************************************)
VARIABLES update,  \* Game.update: the redraw flag
  level,          \* Game.level
  status,         \* Game.status: "StartPlaying" or "Playing"
  map,            \* Game.map[x][y]
  position,       \* Game.position
  position_type,  \* Game.position_type: the tile under the player
  action,         \* Game.action: "None" or a key
  timer,          \* StepIntervalTimer: elapsed milliseconds of the Once timer
  map_asset,      \* Assets<MapAsset> at MapHandle: NoAsset until loaded
  pending,        \* the Update systems that have not yet run in this frame
  stepped,        \* the vector of the last keyboard_input run's step call
  map_load,       \* the load of the file at MapHandle: its state and the bytes read
  since,          \* frame time accumulated since the last queued action
  waited,         \* the value of since at which the last keyboard_input run
                  \* queued its action, NoWait if it queued none
  origin          \* where the key of the last keyboard_input run's step came from

vars ==
  <<update, level, status, map, position, position_type, action, timer,
    map_asset, pending, stepped, map_load, since, waited, origin>>

NoWait == 0 - 1

Systems == {"game_update", "keyboard_input"}

Init ==
  /\ update = TRUE
  /\ level = 1
  /\ status = "StartPlaying"
  /\ map = ZeroMap
  /\ position = <<0, 0>>
  /\ position_type = BLOCK_TYPE_GROUND
  /\ action = "None"
  /\ timer = 0
  /\ map_asset = NoAsset
  /\ pending = Systems
  /\ stepped = NoVec
  /\ map_load = Loading
  /\ since = 0
  /\ waited = NoWait
  /\ origin = "none"

(***************************************************************************)
(* Game methods.                                                           *)
(***************************************************************************)
\* get_player_type with the x axis drawn the other way round
get_player_type_Swapped(d) ==
  CASE d = <<1, 0>> -> BLOCK_TYPE_PLAYER_RIGHT
    [] d = <<-1, 0>> -> BLOCK_TYPE_PLAYER_LEFT
    [] d = <<0, 1>> -> BLOCK_TYPE_PLAYER_UP
    [] d = <<0, -1>> -> BLOCK_TYPE_PLAYER_DOWN
    [] OTHER -> BLOCK_TYPE_PLAYER_UP

get_player_type(d) ==
  CASE d = <<1, 0>> -> BLOCK_TYPE_PLAYER_LEFT
    [] d = <<-1, 0>> -> BLOCK_TYPE_PLAYER_RIGHT
    [] d = <<0, 1>> -> BLOCK_TYPE_PLAYER_UP
    [] d = <<0, -1>> -> BLOCK_TYPE_PLAYER_DOWN
    [] OTHER -> BLOCK_TYPE_PLAYER_UP

InGrid(p) == p[1] \in Coord /\ p[2] \in Coord

At(m, p) == m[p[1]][p[2]]

Put(m, p, v) == [m EXCEPT ![p[1]][p[2]] = v]

\* g is the part of Game that step reads and writes
GameRec(m, p, pt, u) ==
  [map |-> m, position |-> p, position_type |-> pt, update |-> u]

\* StepMove without the write that restores the cell the player leaves
StepMove_KeepsOldTile(g, d, next_position) ==
  IF At(g.map, next_position) = BLOCK_TYPE_GROUND
     \/ At(g.map, next_position) = BLOCK_TYPE_AIM
  THEN GameRec(Put(g.map, next_position, get_player_type(d)),
               next_position, At(g.map, next_position), TRUE)
  ELSE g

\* first if of step: the next cell is ground or a target
StepMove(g, d, next_position) ==
  IF At(g.map, next_position) = BLOCK_TYPE_GROUND
     \/ At(g.map, next_position) = BLOCK_TYPE_AIM
  THEN GameRec(Put(Put(g.map, g.position, g.position_type), next_position,
                   get_player_type(d)),
               next_position,
               At(Put(g.map, g.position, g.position_type), next_position),
               TRUE)
  ELSE g

\* StepPush with one of its writes or tests changed: "drop" leaves out the
\* write of the box to next2, "under" always leaves ground under the player,
\* "any" leaves out the test of what next2 holds
StepPushVariant(g, d, next_position, kind) ==
  IF At(g.map, next_position) = BLOCK_TYPE_BOX
     \/ At(g.map, next_position) = BLOCK_TYPE_BOX_AIM
  THEN LET next2_position == VecAdd(next_position, d)
       IN IF ~InGrid(next2_position) THEN g
          ELSE IF kind = "any"
                  \/ At(g.map, next2_position) = BLOCK_TYPE_GROUND
                  \/ At(g.map, next2_position) = BLOCK_TYPE_AIM
               THEN LET m1 == Put(g.map, g.position, g.position_type)
                        pt == IF kind = "under"
                                 \/ At(m1, next_position) = BLOCK_TYPE_BOX
                              THEN BLOCK_TYPE_GROUND ELSE BLOCK_TYPE_AIM
                        m2 == Put(m1, next_position, get_player_type(d))
                        m3 == IF kind = "drop" THEN m2
                              ELSE IF At(m2, next2_position) = BLOCK_TYPE_GROUND
                              THEN Put(m2, next2_position, BLOCK_TYPE_BOX)
                              ELSE Put(m2, next2_position, BLOCK_TYPE_BOX_AIM)
                    IN GameRec(m3, next_position, pt, TRUE)
               ELSE g
  ELSE g

StepPush_DropsBox(g, d, next_position) ==
  StepPushVariant(g, d, next_position, "drop")

StepPush_UnderGround(g, d, next_position) ==
  StepPushVariant(g, d, next_position, "under")

StepPush_IntoAnything(g, d, next_position) ==
  StepPushVariant(g, d, next_position, "any")

\* second if of step: the next cell is a box
StepPush(g, d, next_position) ==
  IF At(g.map, next_position) = BLOCK_TYPE_BOX
     \/ At(g.map, next_position) = BLOCK_TYPE_BOX_AIM
  THEN LET next2_position == VecAdd(next_position, d)
       IN IF ~InGrid(next2_position) THEN g
          ELSE IF At(g.map, next2_position) = BLOCK_TYPE_GROUND
                  \/ At(g.map, next2_position) = BLOCK_TYPE_AIM
               THEN LET m1 == Put(g.map, g.position, g.position_type)
                        pt == IF At(m1, next_position) = BLOCK_TYPE_BOX
                              THEN BLOCK_TYPE_GROUND ELSE BLOCK_TYPE_AIM
                        m2 == Put(m1, next_position, get_player_type(d))
                        m3 == IF At(m2, next2_position) = BLOCK_TYPE_GROUND
                              THEN Put(m2, next2_position, BLOCK_TYPE_BOX)
                              ELSE Put(m2, next2_position, BLOCK_TYPE_BOX_AIM)
                    IN GameRec(m3, next_position, pt, TRUE)
               ELSE g
  ELSE g

step(g, d) ==
  LET next_position == VecAdd(g.position, d)
  IN IF ~InGrid(next_position) THEN g
     ELSE StepPush(StepMove(g, d, next_position), d, next_position)

\* the scan of win: FALSE at the first plain box
RECURSIVE WinScan(_, _)
WinScan(m, k) ==
  IF k = MAP_SIZE * MAP_SIZE THEN TRUE
  ELSE IF m[k \div MAP_SIZE][k % MAP_SIZE] = BLOCK_TYPE_BOX THEN FALSE
       ELSE WinScan(m, k + 1)

\* win that also takes a box on its target for unsolved
win_CountsBoxOnTarget(m) ==
  \A x \in Coord, y \in Coord :
    m[x][y] # BLOCK_TYPE_BOX /\ m[x][y] # BLOCK_TYPE_BOX_AIM

win(m) == WinScan(m, 0)

\* the wrap of win with >= for >
NextLevel_WrapsEarly(l) == IF l + 1 >= GAME_LEVEL_COUNT THEN 1 ELSE l + 1

NextLevel(l) == IF l + 1 > GAME_LEVEL_COUNT THEN 1 ELSE l + 1

(***************************************************************************)
(* Systems.                                                                *)
(***************************************************************************)
\* a system that has run leaves the frame's pending set; the last one to
\* run starts the next frame
Ran(sys) == IF pending = {sys} THEN Systems ELSE pending \ {sys}

\* game_update, and two variants of it: "dirtyload" sets the redraw flag
\* after a load, "noretry" leaves it clear when the asset is not there yet
GameUpdateVariant(kind) ==
  /\ "game_update" \in pending
  /\ pending' = Ran("game_update")
  /\ UNCHANGED <<action, timer, stepped, position_type, since, waited, origin>>
  /\ IF ~update
     THEN UNCHANGED <<update, level, status, map, position, map_asset, map_load>>
     ELSE IF status = "StartPlaying"
          THEN IF map_asset.ok
               THEN /\ map' = map_asset.value
                    /\ position' = map_asset.position
                    /\ status' = "Playing"
                    /\ update' = (kind = "dirtyload")
                    /\ UNCHANGED <<level, map_asset, map_load>>
               ELSE /\ update' = (kind # "noretry")
                    /\ UNCHANGED <<level, status, map, position, map_asset,
                                   map_load>>
          ELSE IF ~win(map)
               THEN /\ update' = FALSE
                    /\ UNCHANGED <<level, status, map, position, map_asset,
                                   map_load>>
               ELSE /\ level' = NextLevel(level)
                    /\ update' = TRUE
                    /\ status' = "StartPlaying"
                    /\ map_asset' = NoAsset
                    /\ map_load' = Loading
                    /\ UNCHANGED <<map, position>>

GameUpdate_DirtyAfterLoad == GameUpdateVariant("dirtyload")

GameUpdate_NoRetry == GameUpdateVariant("noretry")

GameUpdate ==
  /\ "game_update" \in pending
  /\ pending' = Ran("game_update")
  /\ UNCHANGED <<action, timer, stepped, position_type, since, waited, origin>>
  /\ IF ~update
     THEN UNCHANGED <<update, level, status, map, position, map_asset, map_load>>
     ELSE IF status = "StartPlaying"
          THEN IF map_asset.ok
               THEN /\ map' = map_asset.value
                    /\ position' = map_asset.position
                    /\ status' = "Playing"
                    /\ update' = FALSE
                    /\ UNCHANGED <<level, map_asset, map_load>>
               ELSE /\ update' = TRUE
                    /\ UNCHANGED <<level, status, map, position, map_asset,
                                   map_load>>
          ELSE IF ~win(map)
               THEN /\ update' = FALSE
                    /\ UNCHANGED <<level, status, map, position, map_asset,
                                   map_load>>
               ELSE /\ level' = NextLevel(level)
                    /\ update' = TRUE
                    /\ status' = "StartPlaying"
                    /\ map_asset' = NoAsset
                    /\ map_load' = Loading
                    /\ UNCHANGED <<map, position>>

\* the four ifs of keyboard_input run in this order, so the last pressed
\* key in the order Left, Right, Up, Down is the one that stays
PickAction(keys) ==
  IF "ArrowDown" \in keys THEN "ArrowDown"
  ELSE IF "ArrowUp" \in keys THEN "ArrowUp"
  ELSE IF "ArrowRight" \in keys THEN "ArrowRight"
  ELSE "ArrowLeft"

\* the four ifs as assignments to game.action: without an arrow key the
\* slot keeps what it held
QueueAction_KeepsPending(act, keys) ==
  IF act # "None" THEN act ELSE PickAction(keys)

QueueAction(act, keys) ==
  IF keys \cap ArrowKeys = {} THEN act ELSE PickAction(keys)

\* a timer that is finished at once
TimerTick_NoWait(t, delta) == INPUT_INTERVAL

\* Timer::tick of a Once timer: the elapsed time stops at the duration
TimerTick(t, delta) ==
  IF t >= INPUT_INTERVAL THEN t
  ELSE IF t + delta >= INPUT_INTERVAL THEN INPUT_INTERVAL ELSE t + delta

Deltas == {INPUT_INTERVAL \div 2, INPUT_INTERVAL}

\* Game::update that leaves the action in the slot
Game_update_KeepsAction(st, act, g) ==
  IF st # "Playing" THEN [action |-> act, g |-> g, stepped |-> NoVec]
  ELSE [action |-> act,
        g |-> IF act \in ArrowKeys THEN step(g, ActionVec(act)) ELSE g,
        stepped |-> IF act \in ArrowKeys THEN ActionVec(act) ELSE NoVec]

\* Game::update without the test of the status
Game_update_AnyStatus(st, act, g) ==
  [action |-> "None",
   g |-> IF act \in ArrowKeys THEN step(g, ActionVec(act)) ELSE g,
   stepped |-> IF act \in ArrowKeys THEN ActionVec(act) ELSE NoVec]

\* Game::update on status st, slot act and game g: the slot and the game
\* it leaves, and the vector it handed to step (NoVec: step was not called)
Game_update(st, act, g) ==
  IF st # "Playing" THEN [action |-> act, g |-> g, stepped |-> NoVec]
  ELSE [action |-> "None",
        g |-> IF act \in ArrowKeys THEN step(g, ActionVec(act)) ELSE g,
        stepped |-> IF act \in ArrowKeys THEN ActionVec(act) ELSE NoVec]

\* where the vector d that was stepped came from, given the keys held in
\* this run and the slot as the run found it
Origin(d, keys, act) ==
  IF d = NoVec THEN "none"
  ELSE IF ~(\E k \in keys \cap ArrowKeys : ActionVec(k) = d) THEN "stale"
  ELSE IF act # "None" /\ ActionVec(act) # d THEN "over_pending"
  ELSE "fresh"

KeyboardInput(delta, keys) ==
  /\ "keyboard_input" \in pending
  /\ pending' = Ran("keyboard_input")
  /\ UNCHANGED <<level, status, map_asset, map_load>>
  /\ LET acc == IF since + delta >= INPUT_INTERVAL THEN INPUT_INTERVAL
                ELSE since + delta
     IN IF TimerTick(timer, delta) < INPUT_INTERVAL \/ keys \cap ArrowKeys = {}
        THEN /\ timer' = TimerTick(timer, delta)
             /\ stepped' = NoVec
             /\ since' = acc
             /\ waited' = NoWait
             /\ origin' = "none"
             /\ UNCHANGED <<update, map, position, position_type, action>>
        ELSE LET r == Game_update(status, QueueAction(action, keys),
                                  GameRec(map, position, position_type, update))
             IN /\ timer' = 0
                /\ since' = 0
                /\ waited' = acc
                /\ map' = r.g.map
                /\ position' = r.g.position
                /\ position_type' = r.g.position_type
                /\ update' = r.g.update
                /\ action' = r.action
                /\ stepped' = r.stepped
                /\ origin' = Origin(r.stepped, keys, action)

\* the asset server finishes loading the requested level file
AssetLoaded(text) ==
  /\ pending = Systems
  /\ map_load.state = "Loading"
  /\ Load(text).ok
  /\ map_asset' = Load(text)
  /\ map_load' = [state |-> "Loaded", bytes |-> text]
  /\ UNCHANGED <<update, level, status, map, position, position_type, action,
                 timer, pending, stepped, since, waited, origin>>

\* the load panics (unwrap of from_utf8, slice past the end): no asset
AssetLoadPanics(text) ==
  /\ pending = Systems
  /\ map_load.state = "Loading"
  /\ ~Load(text).ok
  /\ map_load' = [state |-> "Panicked", bytes |-> text]
  /\ UNCHANGED <<update, level, status, map, position, position_type, action,
                 timer, pending, stepped, map_asset, since, waited, origin>>

\* read_to_end fails and load returns the io::Error: no asset
AssetReadError ==
  /\ pending = Systems
  /\ map_load.state = "Loading"
  /\ map_load' = [state |-> "Err", bytes |-> <<>>]
  /\ UNCHANGED <<update, level, status, map, position, position_type, action,
                 timer, pending, stepped, map_asset, since, waited, origin>>

Next ==
  \/ GameUpdate
  \/ \E delta \in Deltas, keys \in SUBSET Keys : KeyboardInput(delta, keys)
  \/ \E text \in LevelTexts : AssetLoaded(text)
  \/ \E text \in LevelTexts : AssetLoadPanics(text)
  \/ AssetReadError

Spec == Init /\ [][Next]_vars

\* every frame runs both systems
LiveSpec ==
  /\ Spec
  /\ WF_vars(GameUpdate)
  /\ WF_vars(\E delta \in Deltas, keys \in SUBSET Keys : KeyboardInput(delta, keys))

TypeOK ==
  /\ update \in BOOLEAN
  /\ level \in 1 .. GAME_LEVEL_COUNT
  /\ status \in {"StartPlaying", "Playing"}
  /\ map \in [Coord -> [Coord -> 0 .. 9]]
  /\ InGrid(position)
  /\ position_type \in {BLOCK_TYPE_GROUND, BLOCK_TYPE_AIM}
  /\ action \in ArrowKeys \cup {"None"}
  /\ timer \in 0 .. INPUT_INTERVAL
  /\ pending \subseteq Systems /\ pending # {}
  /\ stepped \in Dirs \cup {NoVec}
  /\ map_load.state \in {"Loading", "Loaded", "Panicked", "Err"}
  /\ since \in 0 .. INPUT_INTERVAL
  /\ waited \in {NoWait} \cup (0 .. INPUT_INTERVAL)
  /\ origin \in {"none", "fresh", "over_pending", "stale"}

(***************************************************************************)
(* Vocabulary of the properties.                                           *)
(***************************************************************************)
CountKind(m, kinds) == Cardinality({c \in Cells : At(m, c) \in kinds})

BoxTotal(m) == CountKind(m, {BLOCK_TYPE_BOX, BLOCK_TYPE_BOX_AIM})

\* the step just taken is a run of keyboard_input / of game_update
KeyboardRan ==
  \/ pending = {"keyboard_input"}
  \/ pending = Systems /\ pending' = {"game_update"}

GameUpdateRan ==
  \/ pending = {"game_update"}
  \/ pending = Systems /\ pending' = {"keyboard_input"}

\* keyboard_input has just called step(d) on a level in progress
StepCalled(d) == KeyboardRan /\ status = "Playing" /\ stepped' = d

\* the tile the movement rule draws for a direction
Facing(d) ==
  IF d[1] = 1 THEN BLOCK_TYPE_PLAYER_LEFT
  ELSE IF d[1] = -1 THEN BLOCK_TYPE_PLAYER_RIGHT
  ELSE IF d[2] = 1 THEN BLOCK_TYPE_PLAYER_UP
  ELSE BLOCK_TYPE_PLAYER_DOWN

\* the level in play was decoded with a player marker
HasMarker == map_asset.ok /\ CountKind(map_asset.value, {BLOCK_TYPE_PLAYER_DOWN}) >= 1

\* the level in play has exactly one 5 and no 6, 7 or 8
OnePlayerLevel ==
  /\ map_asset.ok
  /\ CountKind(map_asset.value, {BLOCK_TYPE_PLAYER_DOWN}) = 1
  /\ CountKind(map_asset.value, PlayerKinds) = 1

\* C1 (as stated): for every level, every call of Game::step leaves the
\* number of Box plus BoxOnTarget cells as it was.
C1_BoxConservationAnyLevel ==
  [][\A d \in Dirs : StepCalled(d) => BoxTotal(map') = BoxTotal(map)]_vars

\* C1 (amended): for every level in which at least one cell decodes to the
\* player marker 5, every call of Game::step, accepted or rejected, leaves
\* the number of Box plus BoxOnTarget cells as it was.
C1_BoxConservation ==
  [][\A d \in Dirs :
       StepCalled(d) /\ HasMarker => BoxTotal(map') = BoxTotal(map)]_vars

\* a box stands where the level had none: it has been pushed
C1_Witness ==
  /\ status = "Playing" /\ HasMarker /\ stepped \in Dirs
  /\ \E c \in Cells :
       /\ At(map, c) \in {BLOCK_TYPE_BOX, BLOCK_TYPE_BOX_AIM}
       /\ At(map_asset.value, c) \notin {BLOCK_TYPE_BOX, BLOCK_TYPE_BOX_AIM}

\* C2: while a level with exactly one 5 and no 6, 7 or 8 is in progress,
\* after its load and after every action, exactly one cell holds a
\* player-facing kind and it is the cell at the recorded position.
C2_PlayerUnique ==
  (status = "Playing" /\ OnePlayerLevel) =>
    {c \in Cells : At(map, c) \in PlayerKinds} = {position}

\* the player has left the start cell of such a level
C2_Witness ==
  /\ status = "Playing" /\ OnePlayerLevel
  /\ position # map_asset.position
  /\ At(map, position) \in PlayerKinds

\* C3: the win check of game_update reports won exactly when no cell holds
\* the plain Box kind, whatever BoxOnTarget, Target and player cells there
\* are; status leaves Playing only from a grid without a Box cell.
C3_WinIffNoBox ==
  [][/\ (GameUpdateRan /\ update /\ status = "Playing") =>
          ((status' = "StartPlaying") <=> (CountKind(map, {BLOCK_TYPE_BOX}) = 0))
     /\ (status = "Playing" /\ status' = "StartPlaying") =>
          CountKind(map, {BLOCK_TYPE_BOX}) = 0]_vars

\* a won grid that still shows a box on a target, a free target and the player
C3_Witness ==
  /\ status = "StartPlaying" /\ level = 2
  /\ CountKind(map, {BLOCK_TYPE_BOX_AIM}) > 0
  /\ CountKind(map, {BLOCK_TYPE_AIM}) > 0
  /\ At(map, position) \in PlayerKinds

\* C4: a step in direction d whose next cell is in the grid and holds Ground
\* or Target puts the under-tile on the old cell, makes the old content of
\* next the under-tile, draws the tile of d on next (+x left, -x right,
\* +y up, -y down), moves the position, sets the redraw flag and changes no
\* other cell.
C4_PlainMove ==
  [][\A d \in Dirs :
       LET next == VecAdd(position, d)
       IN (/\ StepCalled(d)
           /\ InGrid(next)
           /\ At(map, next) \in {BLOCK_TYPE_GROUND, BLOCK_TYPE_AIM})
          => /\ \A c \in Cells :
                  At(map', c) = IF c = next THEN Facing(d)
                                ELSE IF c = position THEN position_type
                                ELSE At(map, c)
             /\ position_type' = At(map, next)
             /\ position' = next
             /\ update']_vars

\* the player has just walked in +x onto a target
C4_Witness ==
  /\ status = "Playing" /\ pending = {"game_update"}
  /\ stepped = <<1, 0>>
  /\ position_type = BLOCK_TYPE_AIM
  /\ At(map, position) = BLOCK_TYPE_PLAYER_LEFT
  /\ map_asset.ok /\ At(map_asset.value, position) = BLOCK_TYPE_AIM

\* C5: a step in direction d whose next cell holds Box or BoxOnTarget and
\* whose cell after that is in the grid and holds Ground or Target puts the
\* under-tile on the old cell, leaves Ground (after Box) or Target (after
\* BoxOnTarget) as the under-tile, draws the tile of d on next, puts Box (on
\* Ground) or BoxOnTarget (on Target) on next2, moves the position, sets the
\* redraw flag and changes no other cell.
C5_Push ==
  [][\A d \in Dirs :
       LET next == VecAdd(position, d)
           next2 == VecAdd(VecAdd(position, d), d)
       IN (/\ StepCalled(d)
           /\ InGrid(next) /\ InGrid(next2)
           /\ At(map, next) \in {BLOCK_TYPE_BOX, BLOCK_TYPE_BOX_AIM}
           /\ At(map, next2) \in {BLOCK_TYPE_GROUND, BLOCK_TYPE_AIM})
          => /\ \A c \in Cells :
                  At(map', c) =
                    IF c = next2
                    THEN (IF At(map, next2) = BLOCK_TYPE_GROUND
                          THEN BLOCK_TYPE_BOX ELSE BLOCK_TYPE_BOX_AIM)
                    ELSE IF c = next THEN Facing(d)
                    ELSE IF c = position THEN position_type
                    ELSE At(map, c)
             /\ position_type' = IF At(map, next) = BLOCK_TYPE_BOX
                                 THEN BLOCK_TYPE_GROUND ELSE BLOCK_TYPE_AIM
             /\ position' = next
             /\ update']_vars

\* the player has just pushed a box off its target onto another target
C5_Witness ==
  /\ status = "Playing" /\ pending = {"game_update"}
  /\ stepped \in Dirs /\ update
  /\ position_type = BLOCK_TYPE_AIM
  /\ InGrid(VecAdd(position, stepped))
  /\ At(map, VecAdd(position, stepped)) = BLOCK_TYPE_BOX_AIM
  /\ map_asset.ok
  /\ At(map_asset.value, position) = BLOCK_TYPE_BOX_AIM
  /\ At(map_asset.value, VecAdd(position, stepped)) = BLOCK_TYPE_AIM

\* the cases of a rejected step in direction d
Rejected(d) ==
  LET next == VecAdd(position, d)
      next2 == VecAdd(VecAdd(position, d), d)
  IN \/ ~InGrid(next)
     \/ /\ InGrid(next)
        /\ At(map, next) \in {BLOCK_TYPE_WALL, BLOCK_TYPE_BLANK} \cup PlayerKinds
     \/ /\ InGrid(next)
        /\ At(map, next) \in {BLOCK_TYPE_BOX, BLOCK_TYPE_BOX_AIM}
        /\ \/ ~InGrid(next2)
           \/ /\ InGrid(next2)
              /\ At(map, next2) \in {BLOCK_TYPE_WALL, BLOCK_TYPE_BLANK,
                                     BLOCK_TYPE_BOX, BLOCK_TYPE_BOX_AIM}

WinDetected ==
  /\ GameUpdateRan /\ update /\ status = "Playing"
  /\ CountKind(map, {BLOCK_TYPE_BOX}) = 0

\* C7: the level index stays in 1..GAME_LEVEL_COUNT, changes only in the
\* step that detects a win, and that step takes it from L to L+1 below the
\* maximum and from the maximum to 1.
C7_LevelCycle ==
  /\ [](level \in 1 .. GAME_LEVEL_COUNT)
  /\ [][/\ level' # level => WinDetected
        /\ WinDetected =>
             level' = IF level < GAME_LEVEL_COUNT THEN level + 1 ELSE 1]_vars

\* the index is back at 1 after the win of the last level
C7_Witness ==
  /\ level = 1 /\ status = "StartPlaying" /\ map # ZeroMap

\* C8: every load of a level, also the one after a win that left the
\* player on a target, leaves Ground as the under-tile.
C8_LoadResetsUnderTile ==
  [][(status = "StartPlaying" /\ status' = "Playing")
     => position_type' = BLOCK_TYPE_GROUND]_vars

\* C9: once an accepted move has left the grid without a Box cell (the
\* level is in progress, the redraw flag is set and no cell holds Box), no
\* further step changes that grid before game_update handles the win.
C9_WinBeforeNextMove ==
  [][(status = "Playing" /\ update /\ CountKind(map, {BLOCK_TYPE_BOX}) = 0)
     => map' = map]_vars

\* C10: a run of keyboard_input while no level is in progress leaves the
\* whole Game resource, the pending action included, as it was.
C10_QueueNoOpWhenNotPlaying ==
  [][(KeyboardRan /\ status # "Playing")
     => UNCHANGED <<update, level, status, map, position, position_type,
                    action>>]_vars

\* the player moved by at most one cell, and then by the vector stepped
MovedAtMostOnce ==
  position' = position \/ position' = VecAdd(position, stepped')

\* C11: a call of Game::update on a level in progress applies the movement
\* rule to the pending action at most once and leaves the slot empty, for an
\* accepted and for a rejected move; on an empty slot it changes nothing.
C11_ConsumedOnce ==
  /\ [][(KeyboardRan /\ status = "Playing" /\ waited' # NoWait)
        => (action' = "None" /\ stepped' \in Dirs /\ MovedAtMostOnce)]_vars
  /\ [](LET g == GameRec(map, position, position_type, update)
        IN Game_update("Playing", "None", g)
             = [action |-> "None", g |-> g, stepped |-> NoVec])

\* keyboard_input has just consumed a key on a level whose slot still held
\* another key from before the load
C11_Witness ==
  /\ status = "Playing" /\ pending = {"game_update"}
  /\ waited # NoWait /\ origin = "over_pending" /\ action = "None"

\* C12: status goes from StartPlaying to Playing only in the game_update run
\* that loads the level asset, and from Playing to StartPlaying only in the
\* one that detects a win; while status is StartPlaying a run of
\* keyboard_input changes neither the grid nor the position nor the
\* under-tile.
C12_StatusDiagram ==
  [][/\ (status = "StartPlaying" /\ status' = "Playing")
          => (GameUpdateRan /\ map_asset.ok /\ map' = map_asset.value
              /\ position' = map_asset.position)
     /\ (status = "Playing" /\ status' = "StartPlaying") => WinDetected
     /\ (KeyboardRan /\ status = "StartPlaying")
          => (map' = map /\ position' = position
              /\ position_type' = position_type)]_vars

\* a key has just been queued while the won grid of the last level waits
\* for the next one, with free floor next to the player
C12_Witness ==
  /\ status = "StartPlaying" /\ pending = {"game_update"}
  /\ waited # NoWait /\ action # "None"
  /\ \E d \in Dirs :
       /\ InGrid(VecAdd(position, d))
       /\ At(map, VecAdd(position, d)) = BLOCK_TYPE_GROUND
       /\ ActionVec(action) = d

(***************************************************************************)
(* The text of a level file read as lines, for the decoder's properties.   *)
(***************************************************************************)
Digits == <<"0", "1", "2", "3", "4", "5", "6", "7", "8", "9">>

IsDigit(c) == \E n \in 1 .. 10 : Digits[n] = c

DigitValue(c) == (CHOOSE n \in 1 .. 10 : Digits[n] = c) - 1

\* the lines of a text, each ended by LF or CRLF
RECURSIVE LinesOf(_, _)
LinesOf(text, line) ==
  IF text = <<>> THEN (IF line = <<>> THEN <<>> ELSE <<line>>)
  ELSE IF text[1] = "\n" THEN <<line>> \o LinesOf(Tail(text), <<>>)
  ELSE IF text[1] = "\r" /\ Len(text) > 1 /\ text[2] = "\n"
       THEN <<line>> \o LinesOf(Tail(Tail(text)), <<>>)
  ELSE LinesOf(Tail(text), Append(line, text[1]))

Rows(text) == LinesOf(text, <<>>)

\* MAP_SIZE rows of MAP_SIZE digits
WellFormed(text) ==
  /\ Len(Rows(text)) = MAP_SIZE
  /\ \A i \in 1 .. MAP_SIZE :
       /\ Len(Rows(text)[i]) = MAP_SIZE
       /\ \A j \in 1 .. MAP_SIZE : IsDigit(Rows(text)[i][j])

MarkerCells(text) ==
  {c \in Coord \X Coord : Rows(text)[c[1] + 1][c[2] + 1] = "5"}

\* C13: for a text of MAP_SIZE rows of MAP_SIZE digits ended by LF or CRLF,
\* the digit at source row i, column j is the tile of grid cell
\* (j, MAP_SIZE-1-i), and the start position is the (col, row) of the cell
\* that decoded to 5.
C13_RowFlip ==
  (map_load.state = "Loaded" /\ WellFormed(map_load.bytes)) =>
    /\ map_asset.ok
    /\ \A i \in Coord, j \in Coord :
         At(map_asset.value, <<j, MAP_SIZE - 1 - i>>)
           = DigitValue(Rows(map_load.bytes)[i + 1][j + 1])
    /\ \A c \in MarkerCells(map_load.bytes) :
         MarkerCells(map_load.bytes) = {c}
           => map_asset.position = <<c[2], MAP_SIZE - 1 - c[1]>>

\* a CRLF text whose marker is in the last source row is loaded: the
\* player starts in grid row 0
C13_Witness ==
  /\ map_load.state = "Loaded" /\ WellFormed(map_load.bytes)
  /\ \E n \in 1 .. Len(map_load.bytes) : map_load.bytes[n] = "\r"
  /\ MarkerCells(map_load.bytes) = {<<MAP_SIZE - 1, 0>>}
  /\ map_asset.position = <<0, 0>>
  /\ At(map_asset.value, <<2, MAP_SIZE - 1>>) = BLOCK_TYPE_AIM

\* the character of grid cell (x, y) in the text, "" if the row or the
\* column is missing
CharOf(text, x, y) ==
  LET i == MAP_SIZE - 1 - y
  IN IF i + 1 > Len(Rows(text)) THEN ""
     ELSE IF x + 1 > Len(Rows(text)[i + 1]) THEN ""
     ELSE Rows(text)[i + 1][x + 1]

\* C14: every load of bytes that are valid text, whatever its characters
\* and however many rows and columns it has, completes with a Level, in
\* which every cell whose digit is unparsable or missing is Blank.
C14_LenientDecode ==
  (map_load.state \in {"Loaded", "Panicked"} /\ ValidUtf8(map_load.bytes)) =>
    /\ map_load.state = "Loaded"
    /\ map_asset.ok
    /\ \A x \in Coord, y \in Coord :
         ~IsDigit(CharOf(map_load.bytes, x, y))
           => At(map_asset.value, <<x, y>>) = BLOCK_TYPE_BLANK

\* C15: a load of bytes that are not valid text ends with the error value,
\* not with an abort.
C15_DecodeErrorValue ==
  (map_load.state # "Loading" /\ ~ValidUtf8(map_load.bytes)) =>
    map_load.state = "Err"

\* C16 (as stated): in the state right after the load of a level the
\* redraw flag is set.
C16_DirtyAfterLoad ==
  [][(status = "StartPlaying" /\ status' = "Playing") => update']_vars

\* C16 (amended): in the state right after the load of a level (status has
\* just become Playing) the redraw flag is clear; the load itself draws
\* the grid.
C16_CleanAfterLoad ==
  [][(status = "StartPlaying" /\ status' = "Playing") => ~update']_vars

\* the level has just been loaded and nothing has moved
C16_Witness ==
  /\ status = "Playing" /\ ~update
  /\ map_asset.ok /\ map = map_asset.value /\ position = map_asset.position
  /\ pending = {"keyboard_input"} /\ level = 2

\* C17: an action is queued only when at least INPUT_INTERVAL of frame
\* time has accumulated since the last queued action, or since startup
\* for the first one, and queuing restarts the timer.
C17_Debounce ==
  /\ [](waited # NoWait => waited >= INPUT_INTERVAL)
  /\ [][(KeyboardRan /\ waited' # NoWait) => timer' = 0]_vars

\* an action has just been queued with the player two cells from the
\* start: not the first action of the level
C17_Witness ==
  /\ status = "Playing" /\ pending = {"game_update"}
  /\ waited = INPUT_INTERVAL /\ timer = 0 /\ since = 0
  /\ map_asset.ok
  /\ \E d \in Dirs : position = VecAdd(VecAdd(map_asset.position, d), d)

\* C18: in every state between system runs with status StartPlaying the
\* redraw flag is set, and once the level asset is there the status
\* becomes Playing.
C18_LoadRetried ==
  /\ [](status = "StartPlaying" => update)
  /\ (status = "StartPlaying" /\ map_asset.ok) ~> (status = "Playing")

\* the asset of the next level has arrived after game_update ran without it
C18_Witness ==
  /\ status = "StartPlaying" /\ update /\ map_asset.ok /\ level > 1
  /\ pending = Systems

\* the coordinates that carry a target
TargetCoords(m, p, pt) ==
  {c \in Cells : At(m, c) \in {BLOCK_TYPE_AIM, BLOCK_TYPE_BOX_AIM}}
    \cup (IF pt = BLOCK_TYPE_AIM THEN {p} ELSE {})

\* C19: while a level is in progress the coordinates that carry a target
\* (Target and BoxOnTarget cells, and the player's cell when the under-tile
\* is Target) are those that held Target or BoxOnTarget in the level as
\* decoded.
C19_TargetsFixed ==
  (status = "Playing" /\ map_asset.ok) =>
    TargetCoords(map, position, position_type)
      = TargetCoords(map_asset.value, map_asset.position, BLOCK_TYPE_GROUND)

\* C20: every vector handed to step belongs to a key held in the same run
\* of keyboard_input, on a level in progress; a key queued before the load
\* is never stepped.
C20_NoStaleAction ==
  /\ [](origin # "stale")
  /\ [][(KeyboardRan /\ stepped' # NoVec)
        => (status = "Playing" /\ waited' # NoWait)]_vars

\* a key queued before the load was still in the slot when another key
\* was stepped
C20_Witness ==
  /\ status = "Playing" /\ origin = "over_pending" /\ stepped \in Dirs
  /\ action = "None"
====
